---------------------------- MODULE Spec2Model ----------------------------
(***************************************************************************)
(* A model of python/apc_csv_processing.py (OpenAPC metadata enrichment):  *)
(*                                                                         *)
(*   - CSVColumn.check_overwrite, the per-column conflict resolver with    *)
(*     its policy, whitelist and blacklist;                                *)
(*   - main(): column classification (forced indices, header analysis,     *)
(*     heuristical analysis, mandatory check, summary) and the metadata    *)
(*     aggregation loop (row construction, Crossref, Pubmed, DOAJ).        *)
(*                                                                         *)
(* Text values of CSV cells are sequences of one-character strings, so     *)
(* that strip(), int(), locale.atof() and str() are computed rather than   *)
(* assumed.  Role names and header cells are TLA+ strings.                 *)
(***************************************************************************)
EXTENDS Integers, Sequences, FiniteSets, TLC

VARIABLES
    \* one CSVColumn under arbitrary calls (the column specifications)
    column,            \* the CSVColumn object
    call,              \* the last check_overwrite call and what it returned
    approved,          \* history: the pairs <<old, new>> answered "2" so far
    rejected,          \* history: the pairs <<old, new>> answered "5" so far
    \* main()
    args,              \* the parsed command line: force, ignore_header, index
    has_header,        \* csv_analysis.has_header
    file,              \* the rows the reader yields, in order
    world,             \* the answers the metadata sources can give
    num_columns,       \* len(first_row)
    column_map,        \* role -> CSVColumn
    keys,              \* column_map.keys(), in insertion order
    header,            \* the header row; <<>> stands for None
    column_candidates, \* what the scan of the sample row found
    pc,                \* where main() stands
    row_num,           \* the number of rows read by the aggregation loop
    header_processed,
    enriched_content,
    error_messages,
    current_row,       \* role -> value of the row being enriched
    doi,
    data,              \* the metadata record being merged
    pending,           \* the keys of data still to be merged
    issns,             \* the DOAJ candidates still to be looked up
    lookups,           \* the metadata lookups made for the current row
    out_csv            \* the rows written to out.csv; <<>> before that

colVars == <<column, approved, rejected>>

inputVars == <<args, has_header, file, world, num_columns>>

analysisVars == <<column_map, keys, header, column_candidates>>

rowVars ==
    <<row_num, header_processed, enriched_content, error_messages,
      current_row, doi, data, pending, issns, lookups, out_csv>>

mainVars == <<inputVars, analysisVars, pc, rowVars>>

vars == <<colVars, call, mainVars>>

-----------------------------------------------------------------------------
(* Text *)

NA == <<"N", "A">>
EmptyText == <<>>

WhiteSpace == {" ", "\t"}

RECURSIVE LStrip(_)
LStrip(s) ==
    IF s # <<>> /\ Head(s) \in WhiteSpace THEN LStrip(Tail(s)) ELSE s

RECURSIVE RStrip(_)
RStrip(s) ==
    IF s # <<>> /\ s[Len(s)] \in WhiteSpace
    THEN RStrip(SubSeq(s, 1, Len(s) - 1))
    ELSE s

\* str.strip(): leading and trailing whitespace removed
Strip(s) == RStrip(LStrip(s))

-----------------------------------------------------------------------------
(* Python dicts: functions whose domain is the set of keys *)

EmptyDict == [k \in {} |-> k]

DictSet(d, key, v) ==
    [k \in (DOMAIN d) \cup {key} |-> IF k = key THEN v ELSE d[k]]

-----------------------------------------------------------------------------
(* class CSVColumn *)

MANDATORY == "mandatory"
OPTIONAL == "optional"
NONE == "non-required"

OW_ALWAYS == 0
OW_ASK == 1
OW_NEVER == 2

\* None as a column index (indices are compared with integers)
NoIndex == -1

\* None as a metadata value (values are compared with texts)
None == <<"None">>

\* CSVColumn.__init__ with the default overwrite=OW_ASK
CSVColumn(column_type, requirement, index, column_name) ==
    [column_type |-> column_type,
     requirement |-> requirement,
     index |-> index,
     column_name |-> column_name,
     overwrite |-> OW_ASK,
     overwrite_whitelist |-> EmptyDict,
     overwrite_blacklist |-> EmptyDict]

\* what a check_overwrite call yields: the returned value, the column
\* object after the call, and whether raw_input was reached
Outcome(value, self, prompted) ==
    [value |-> value, self |-> self, prompted |-> prompted]

\* the six accepted answers of the prompt; anything else is asked again
Answers == {"1", "2", "3", "4", "5", "6"}

\* a variant of AnswerWhitelist that overwrites but stores nothing
AnswerWhitelist_Forget(self, old_value, new_value) ==
    Outcome(new_value, self, TRUE)

\* the answer of the prompt is "2": remember the pair, overwrite
AnswerWhitelist(self, old_value, new_value) ==
    Outcome(new_value,
            [self EXCEPT !.overwrite_whitelist =
                             DictSet(@, old_value, new_value)],
            TRUE)

\* a variant of AnswerBlacklist that keeps the value but stores nothing
AnswerBlacklist_Forget(self, old_value, new_value) ==
    Outcome(old_value, self, TRUE)

\* the answer of the prompt is "5": remember the pair, keep
AnswerBlacklist(self, old_value, new_value) ==
    Outcome(old_value,
            [self EXCEPT !.overwrite_blacklist =
                             DictSet(@, old_value, new_value)],
            TRUE)

\* the prompt and the handling of its answer ret
Prompt(self, old_value, new_value, ret) ==
    CASE ret = "1" -> Outcome(new_value, self, TRUE)
      [] ret = "2" -> AnswerWhitelist(self, old_value, new_value)
      [] ret = "3" ->
            Outcome(new_value, [self EXCEPT !.overwrite = OW_ALWAYS], TRUE)
      [] ret = "4" -> Outcome(old_value, self, TRUE)
      [] ret = "5" -> AnswerBlacklist(self, old_value, new_value)
      [] ret = "6" ->
            Outcome(old_value, [self EXCEPT !.overwrite = OW_NEVER], TRUE)

\* a variant of IsMissing that compares with "" instead of stripping
IsMissing_NoStrip(old_value) ==
    old_value = NA \/ old_value = EmptyText

\* "Empty or NA values will always be overwritten"
IsMissing(old_value) ==
    old_value = NA \/ Strip(old_value) = EmptyText

InBlacklist(self, old_value, new_value) ==
    /\ old_value \in DOMAIN self.overwrite_blacklist
    /\ self.overwrite_blacklist[old_value] = new_value

InWhitelist(self, old_value) ==
    old_value \in DOMAIN self.overwrite_whitelist

\* a variant of Resolve that consults the whitelist before the blacklist
Resolve_WhitelistFirst(self, old_value, new_value, ret) ==
    IF self.overwrite = OW_ALWAYS THEN Outcome(new_value, self, FALSE)
    ELSE IF self.overwrite = OW_NEVER THEN Outcome(old_value, self, FALSE)
    ELSE IF InWhitelist(self, old_value)
         THEN Outcome(new_value, self, FALSE)
    ELSE IF InBlacklist(self, old_value, new_value)
         THEN Outcome(old_value, self, FALSE)
    ELSE Prompt(self, old_value, new_value, ret)

\* a variant of Resolve that consults the two lists before the policy
Resolve_ListsFirst(self, old_value, new_value, ret) ==
    IF InBlacklist(self, old_value, new_value)
    THEN Outcome(old_value, self, FALSE)
    ELSE IF InWhitelist(self, old_value)
         THEN Outcome(new_value, self, FALSE)
    ELSE IF self.overwrite = OW_ALWAYS THEN Outcome(new_value, self, FALSE)
    ELSE IF self.overwrite = OW_NEVER THEN Outcome(old_value, self, FALSE)
    ELSE Prompt(self, old_value, new_value, ret)

\* a variant of Resolve that overwrites unasked only the pair the whitelist
\* holds
Resolve_WhitelistExactPair(self, old_value, new_value, ret) ==
    IF self.overwrite = OW_ALWAYS THEN Outcome(new_value, self, FALSE)
    ELSE IF self.overwrite = OW_NEVER THEN Outcome(old_value, self, FALSE)
    ELSE IF InBlacklist(self, old_value, new_value)
         THEN Outcome(old_value, self, FALSE)
    ELSE IF /\ InWhitelist(self, old_value)
            /\ self.overwrite_whitelist[old_value] = new_value
         THEN Outcome(new_value, self, FALSE)
    ELSE Prompt(self, old_value, new_value, ret)

\* a variant of Resolve without the test for the policy NEVER
Resolve_NoNeverTest(self, old_value, new_value, ret) ==
    IF self.overwrite = OW_ALWAYS THEN Outcome(new_value, self, FALSE)
    ELSE IF InBlacklist(self, old_value, new_value)
         THEN Outcome(old_value, self, FALSE)
    ELSE IF InWhitelist(self, old_value)
         THEN Outcome(new_value, self, FALSE)
    ELSE Prompt(self, old_value, new_value, ret)

\* the steps of check_overwrite once old and new differ and old is present
Resolve(self, old_value, new_value, ret) ==
    IF self.overwrite = OW_ALWAYS THEN Outcome(new_value, self, FALSE)
    ELSE IF self.overwrite = OW_NEVER THEN Outcome(old_value, self, FALSE)
    ELSE IF InBlacklist(self, old_value, new_value)
         THEN Outcome(old_value, self, FALSE)
    ELSE IF InWhitelist(self, old_value)
         THEN Outcome(new_value, self, FALSE)
    ELSE Prompt(self, old_value, new_value, ret)

\* a variant of check_overwrite without the test for equal values
check_overwrite_NoEqualTest(self, old_value, new_value, ret) ==
    IF IsMissing(old_value) THEN Outcome(new_value, self, FALSE)
    ELSE Resolve(self, old_value, new_value, ret)

\* CSVColumn.check_overwrite; ret is the answer the user gives if asked
check_overwrite(self, old_value, new_value, ret) ==
    IF old_value = new_value THEN Outcome(old_value, self, FALSE)
    ELSE IF IsMissing(old_value) THEN Outcome(new_value, self, FALSE)
    ELSE Resolve(self, old_value, new_value, ret)

NoAnswer == "-"

\* raw_input is reached only on an unresolved conflict; only then is there
\* an answer to draw
AnswersOf(self, old_value, new_value) ==
    IF check_overwrite(self, old_value, new_value, "1").prompted
    THEN Answers
    ELSE {NoAnswer}

\* the record of a call: its arguments, the value returned, whether it
\* prompted and the answer given
CallRecord(old_value, new_value, out, ret) ==
    [made |-> TRUE, column_type |-> out.self.column_type,
     old_value |-> old_value, new_value |-> new_value,
     value |-> out.value, prompted |-> out.prompted, ret |-> ret]

NoCall ==
    [made |-> FALSE, column_type |-> "", old_value |-> NA, new_value |-> NA,
     value |-> NA, prompted |-> FALSE, ret |-> NoAnswer]

-----------------------------------------------------------------------------
(* Numbers in cells: int(), locale.atof(), float.is_integer(), str() *)

Digits == {"0", "1", "2", "3", "4", "5", "6", "7", "8", "9"}

DigitValue(c) ==
    CASE c = "0" -> 0 [] c = "1" -> 1 [] c = "2" -> 2 [] c = "3" -> 3
      [] c = "4" -> 4 [] c = "5" -> 5 [] c = "6" -> 6 [] c = "7" -> 7
      [] c = "8" -> 8 [] c = "9" -> 9

DigitChar(n) ==
    CASE n = 0 -> "0" [] n = 1 -> "1" [] n = 2 -> "2" [] n = 3 -> "3"
      [] n = 4 -> "4" [] n = 5 -> "5" [] n = 6 -> "6" [] n = 7 -> "7"
      [] n = 8 -> "8" [] n = 9 -> "9"

IsDigits(s) == Len(s) > 0 /\ \A i \in 1..Len(s) : s[i] \in Digits

RECURSIVE NatOf(_)
NatOf(s) ==
    IF s = <<>> THEN 0
    ELSE 10 * NatOf(SubSeq(s, 1, Len(s) - 1)) + DigitValue(s[Len(s)])

\* str() of a non-negative int
RECURSIVE NatStr(_)
NatStr(n) ==
    IF n < 10 THEN <<DigitChar(n)>>
    ELSE NatStr(n \div 10) \o <<DigitChar(n % 10)>>

\* int(entry) succeeds (unsigned decimal literals, surrounding whitespace
\* allowed); anything else raises ValueError
IntParses(entry) == IsDigits(Strip(entry))

IntOf(entry) == NatOf(Strip(entry))

RECURSIVE DropTrailingZeros(_)
DropTrailingZeros(s) ==
    IF s # <<>> /\ s[Len(s)] = "0"
    THEN DropTrailingZeros(SubSeq(s, 1, Len(s) - 1))
    ELSE s

DotPositions(s) == {i \in 1..Len(s) : s[i] = "."}

\* locale.atof(value) succeeds: under the C locale, unsigned decimal
\* literals with at most one "." and at least one digit, surrounding
\* whitespace allowed; anything else (a decimal comma, letters, the empty
\* text) raises ValueError
AtofParses(value) ==
    LET t == Strip(value) IN
    /\ \A i \in 1..Len(t) : t[i] \in Digits \cup {"."}
    /\ \A i, j \in DotPositions(t) : i = j
    /\ \E i \in 1..Len(t) : t[i] \in Digits

\* the float locale.atof returns: its whole part and the digits of its
\* fractional part
atof(value) ==
    LET t == Strip(value)
        dot == IF DotPositions(t) = {} THEN Len(t) + 1
               ELSE CHOOSE i \in DotPositions(t) : TRUE
    IN [whole |-> NatOf(SubSeq(t, 1, dot - 1)),
        frac |-> DropTrailingZeros(SubSeq(t, dot + 1, Len(t)))]

is_integer(x) == x.frac = <<>>

\* str(int(euro)) for an integral float, str(euro) otherwise
EuroStr(x) ==
    IF is_integer(x) THEN NatStr(x.whole)
    ELSE NatStr(x.whole) \o <<".">> \o x.frac

\* lo <= x <= hi for a float x and ints lo, hi
FloatBetween(x, lo, hi) ==
    /\ x.whole >= lo
    /\ x.whole < hi \/ (x.whole = hi /\ is_integer(x))

-----------------------------------------------------------------------------
(* openapc_toolkit (imported as oat): what main() relies on *)

\* oat.DOI_RE.match(entry): "10." digits "/" and a non-blank character
DOI_RE_match(entry) ==
    \E slash \in 5..(Len(entry) - 1) :
        /\ SubSeq(entry, 1, 3) = <<"1", "0", ".">>
        /\ IsDigits(SubSeq(entry, 4, slash - 1))
        /\ entry[slash] = "/"
        /\ entry[slash + 1] \notin WhiteSpace

\* oat.get_column_type_from_whitelist(item): the role whose alias set
\* holds the header cell, compared case-insensitively, or None
get_column_type_from_whitelist(item) ==
    CASE item \in {"institution", "Institution"} -> "institution"
      [] item \in {"period", "Period", "jahr"} -> "period"
      [] item \in {"euro", "EURO", "apc"} -> "euro"
      [] item \in {"doi", "DOI"} -> "doi"
      [] item \in {"is_hybrid", "IS_HYBRID"} -> "is_hybrid"
      [] item \in {"publisher", "Publisher"} -> "publisher"
      [] item \in {"journal_full_title", "journal"} -> "journal_full_title"
      [] item \in {"issn", "ISSN"} -> "issn"
      [] item \in {"url", "URL"} -> "url"
      [] OTHER -> "None"

\* the year datetime.date.today().year yields
now == 2026

-----------------------------------------------------------------------------
(* main(): the column map and the analysis of the CSV file *)

\* the keys of column_map in the order of its OrderedDict
KnownRoles ==
    <<"institution", "period", "euro", "doi", "is_hybrid", "publisher",
      "journal_full_title", "issn", "issn_print", "issn_electronic",
      "license_ref", "indexed_in_crossref", "pmid", "pmcid", "ut", "url",
      "doaj">>

Range(seq) == {seq[i] : i \in 1..Len(seq)}

MandatoryRoles == {"institution", "period", "euro", "doi", "is_hybrid"}

OptionalRoles == {"publisher", "journal_full_title", "issn", "url"}

\* the roles with an index argument on the command line
ForcibleRoles == MandatoryRoles \cup OptionalRoles

Requirement(role) ==
    IF role \in MandatoryRoles THEN MANDATORY
    ELSE IF role \in OptionalRoles THEN OPTIONAL
    ELSE NONE

\* column_map as constructed from the command line arguments
InitialColumnMap(a) ==
    [role \in Range(KnownRoles) |->
        CSVColumn(role, Requirement(role),
                  IF role \in ForcibleRoles THEN a.index[role] ELSE NoIndex,
                  "")]

\* the position in f of its first non-empty row at or after from; 0 if
\* there is none ("if not row: continue")
FirstNonEmpty(f, from) ==
    IF \E i \in from..Len(f) : f[i] # <<>>
    THEN CHOOSE i \in from..Len(f) :
             f[i] # <<>> /\ \A j \in from..(i - 1) : f[j] = <<>>
    ELSE 0

\* the position of the header row in the file; 0 if there is none
HeaderPosition(f, hh) == IF hh THEN FirstNonEmpty(f, 1) ELSE 0

\* the position of the row the heuristical analysis looks at: the reader
\* goes on behind the header row
SamplePosition(f, hh) == FirstNonEmpty(f, HeaderPosition(f, hh) + 1)

\* the indices the columns of a map hold
AssignedIndices(map) == {map[k].index : k \in DOMAIN map}

\* a variant of MatchHeaderCell where a later header cell replaces an
\* index already set
MatchHeaderCell_LastWins(map, item, index) ==
    LET column_type == get_column_type_from_whitelist(item) IN
    IF column_type # "None"
    THEN [map EXCEPT ![column_type].index = index,
                     ![column_type].column_name = item]
    ELSE map

\* one header cell: the body of the loop over enumerate(header)
MatchHeaderCell(map, item, index) ==
    LET column_type == get_column_type_from_whitelist(item) IN
    IF column_type # "None" /\ map[column_type].index = NoIndex
    THEN [map EXCEPT ![column_type].index = index,
                     ![column_type].column_name = item]
    ELSE map

\* the loop over enumerate(header), from cell number index on
RECURSIVE MatchHeader(_, _, _)
MatchHeader(map, hdr, index) ==
    IF index >= Len(hdr) THEN map
    ELSE MatchHeader(MatchHeaderCell(map, hdr[index + 1], index),
                     hdr, index + 1)

\* a variant of LooksLike that makes the test for a monetary amount
\* before the test for a year
LooksLike_EuroFirst(map, entry) ==
    IF map["doi"].index = NoIndex /\ DOI_RE_match(entry) THEN "doi"
    ELSE IF /\ map["euro"].index = NoIndex
            /\ AtofParses(entry)
            /\ FloatBetween(atof(entry), 10, 6000)
         THEN "euro"
    ELSE IF /\ map["period"].index = NoIndex
            /\ IntParses(entry)
            /\ IntOf(entry) >= 2000 /\ IntOf(entry) <= now + 2
         THEN "period"
    ELSE "None"

\* what an entry of the sample row looks like, given the roles that are
\* still unassigned: the checks are made in this order and the first hit
\* ends them ("continue")
LooksLike(map, entry) ==
    IF map["doi"].index = NoIndex /\ DOI_RE_match(entry) THEN "doi"
    ELSE IF /\ map["period"].index = NoIndex
            /\ IntParses(entry)
            /\ IntOf(entry) >= 2000 /\ IntOf(entry) <= now + 2
         THEN "period"
    ELSE IF /\ map["euro"].index = NoIndex
            /\ AtofParses(entry)
            /\ FloatBetween(atof(entry), 10, 6000)
         THEN "euro"
    ELSE "None"

SniffedRoles == {"doi", "period", "euro"}

\* a variant of Candidates that does not skip the columns already assigned
Candidates_NoSkip(map, row, column_type) ==
    SelectSeq([i \in 1..Len(row) |-> i - 1],
              LAMBDA index :
                  LooksLike(map, Strip(row[index + 1])) = column_type)

\* column_candidates[column_type] after the scan of the sample row
Candidates(map, row, column_type) ==
    SelectSeq([i \in 1..Len(row) |-> i - 1],
              LAMBDA index :
                  /\ index \notin AssignedIndices(map)
                  /\ LooksLike(map, Strip(row[index + 1])) = column_type)

NoCandidates == [column_type \in SniffedRoles |-> <<>>]

\* header[index] is evaluated for every candidate found: an IndexError
\* when the sample row is longer than the header
SniffRaises(map, hdr, row) ==
    /\ hdr # <<>>
    /\ \E column_type \in SniffedRoles :
           \E i \in 1..Len(Candidates(map, row, column_type)) :
               Candidates(map, row, column_type)[i] >= Len(hdr)

\* a variant of AssignCandidate that takes the first of several candidates
AssignCandidate_TakeFirst(map, hdr, candidates, column_type) ==
    IF map[column_type].index # NoIndex \/ Len(candidates) < 1
    THEN map[column_type]
    ELSE [map[column_type] EXCEPT
              !.index = candidates[1],
              !.column_name =
                  IF hdr # <<>> THEN hdr[candidates[1] + 1] ELSE @]

\* the column of column_type after the loop over column_candidates
AssignCandidate(map, hdr, candidates, column_type) ==
    IF map[column_type].index # NoIndex \/ Len(candidates) # 1
    THEN map[column_type]
    ELSE [map[column_type] EXCEPT
              !.index = candidates[1],
              !.column_name =
                  IF hdr # <<>> THEN hdr[candidates[1] + 1] ELSE @]

Sniff(map, hdr, row) ==
    [k \in DOMAIN map |->
        IF k \in SniffedRoles
        THEN AssignCandidate(map, hdr, Candidates(map, row, k), k)
        ELSE map[k]]

\* the mandatory columns still without an index
Unassigned(map) ==
    {k \in DOMAIN map :
        map[k].requirement = MANDATORY /\ map[k].index = NoIndex}

\* "while column_name in column_map.keys(): column_name += '_'"
RECURSIVE UniqueName(_, _)
UniqueName(column_name, ks) ==
    IF column_name \in Range(ks)
    THEN UniqueName(column_name \o "_", ks)
    ELSE column_name

\* a variant of UnknownName that does not look at the header
UnknownName_Generic(hdr, index) == "unknown"

\* the name an unknown column starts from
UnknownName(hdr, index) ==
    IF hdr # <<>> /\ hdr[index + 1] # "" THEN hdr[index + 1] ELSE "unknown"

\* the loop over range(num_columns) of the analysis summary, from index
\* on: reg is the pair of column_map and its key order, index_dict the
\* indices known before the loop
RECURSIVE AppendUnknown(_, _, _, _, _)
AppendUnknown(reg, hdr, index_dict, index, n) ==
    IF index >= n THEN reg
    ELSE IF index \in index_dict
         THEN AppendUnknown(reg, hdr, index_dict, index + 1, n)
    ELSE LET column_name == UniqueName(UnknownName(hdr, index), reg.keys)
         IN AppendUnknown(
                [map |-> DictSet(reg.map, column_name,
                                 CSVColumn(column_name, NONE, index, "")),
                 keys |-> Append(reg.keys, column_name)],
                hdr, index_dict, index + 1, n)

-----------------------------------------------------------------------------
(* main(): the metadata aggregation loop *)

TrueText == <<"T", "R", "U", "E">>
FalseText == <<"F", "A", "L", "S", "E">>

\* the fields of the records the metadata sources return
CrossrefKeys ==
    <<"publisher", "journal_full_title", "issn", "issn_print",
      "issn_electronic", "license_ref">>

PubmedKeys == <<"pmid", "pmcid">>

\* oat.get_unified_journal_title and oat.get_unified_publisher_name: the
\* canonical form of a known variant, the value itself otherwise
get_unified_journal_title(value) ==
    IF value = <<"j">> THEN <<"J">> ELSE value

get_unified_publisher_name(value) ==
    IF value = <<"p">> THEN <<"P">> ELSE value

\* a variant of LengthDiffers that lets the longer rows pass
LengthDiffers_ShortOnly(row, n) == Len(row) < n

\* "if len(row) != num_columns"
LengthDiffers(row, n) == Len(row) # n

\* row[index] raises: index is None (TypeError) or beyond the row
\* (IndexError)
CellRaises(row, index) == index = NoIndex \/ index >= Len(row)

\* the column cannot be copied: its index is beyond the row
CopyRaises(col, row) == col.index # NoIndex /\ col.index >= Len(row)

\* the column has a value in the row
HasValue(col, row) ==
    col.index # NoIndex /\ Len(row[col.index + 1]) > 0

\* locale.atof raises ValueError on the value of the euro column
EuroRaises(col, row) ==
    /\ col.column_type = "euro"
    /\ ~CopyRaises(col, row)
    /\ HasValue(col, row)
    /\ ~AtofParses(row[col.index + 1])

\* a variant of CopiedValue that leaves a role without value empty
CopiedValue_EmptyForMissing(col, row) ==
    IF HasValue(col, row)
    THEN IF col.column_type = "euro"
         THEN EuroStr(atof(row[col.index + 1]))
         ELSE row[col.index + 1]
    ELSE EmptyText

\* a variant of CopiedValue that copies the monetary value as it is
CopiedValue_EuroVerbatim(col, row) ==
    IF HasValue(col, row) THEN row[col.index + 1] ELSE NA

\* current_row[csv_column.column_type] as set by the copy loop
CopiedValue(col, row) ==
    IF HasValue(col, row)
    THEN IF col.column_type = "euro"
         THEN EuroStr(atof(row[col.index + 1]))
         ELSE row[col.index + 1]
    ELSE NA

\* a variant of BuildStatus where the ValueError of locale.atof is not
\* caught
BuildStatus_NoExit(map, ks, row) ==
    IF \/ CellRaises(row, map["doi"].index)
       \/ \E i \in 1..Len(ks) :
              CopyRaises(map[ks[i]], row) \/ EuroRaises(map[ks[i]], row)
    THEN "crash"
    ELSE "ok"

\* how the construction of current_row ends: "crash" on an exception,
\* "exit" on sys.exit(), "ok" otherwise.  The doi is read first, then the
\* columns are copied in the order of column_map.
BuildStatus(map, ks, row) ==
    LET bad == {i \in 1..Len(ks) :
                   CopyRaises(map[ks[i]], row) \/ EuroRaises(map[ks[i]], row)}
        first == CHOOSE i \in bad : \A j \in bad : i <= j
    IN IF CellRaises(row, map["doi"].index) THEN "crash"
       ELSE IF bad = {} THEN "ok"
       ELSE IF CopyRaises(map[ks[first]], row) THEN "crash"
       ELSE "exit"

BuildRow(map, ks, row) ==
    [k \in Range(ks) |-> CopiedValue(map[k], row)]

\* current_row.values()
RowValues(row, ks) == [i \in 1..Len(ks) |-> row[ks[i]]]

\* a variant of CrossrefNewValue that passes an absent field on as it is
CrossrefNewValue_AbsentAsNone(key, value) ==
    IF value # None
    THEN IF key = "journal_full_title" THEN get_unified_journal_title(value)
         ELSE IF key = "publisher" THEN get_unified_publisher_name(value)
         ELSE value
    ELSE None

\* the value a metadata field is merged as
CrossrefNewValue(key, value) ==
    IF value # None
    THEN IF key = "journal_full_title" THEN get_unified_journal_title(value)
         ELSE IF key = "publisher" THEN get_unified_publisher_name(value)
         ELSE value
    ELSE NA

PubmedNewValue(key, value) ==
    IF value # None THEN value ELSE NA

\* a line of error_messages
Message(line, source, about) ==
    [line |-> line, source |-> source, about |-> about]

\* a variant of DoajCandidates in the order issn, eissn, print issn
DoajCandidates_IssnFirst(row) ==
    (IF row["issn"] # NA THEN <<row["issn"]>> ELSE <<>>)
    \o (IF row["issn_electronic"] # NA
        THEN <<row["issn_electronic"]>> ELSE <<>>)
    \o (IF row["issn_print"] # NA THEN <<row["issn_print"]>> ELSE <<>>)

\* the list issns: "try the EISSN first, then ISSN and finally print ISSN"
DoajCandidates(row) ==
    IF row["doaj"] # TrueText
    THEN (IF row["issn_electronic"] # NA
          THEN <<row["issn_electronic"]>> ELSE <<>>)
         \o (IF row["issn"] # NA THEN <<row["issn"]>> ELSE <<>>)
         \o (IF row["issn_print"] # NA THEN <<row["issn_print"]>> ELSE <<>>)
    ELSE <<>>

\* the answers of oat.lookup_journal_in_doaj: no data received, data
\* received with in_doaj false, data received with in_doaj true
DoajAnswers == {"failed", "not_in_doaj", "in_doaj"}

\* a variant of DoajGoesOn that stops at the first answer received
DoajGoesOn_FirstAnswer(answer) == answer = "failed"

\* the loop over issns goes on after this answer: only a journal found in
\* DOAJ ends it ("break")
DoajGoesOn(answer) == answer # "in_doaj"

\* a variant of DoajValue where a failed lookup counts as "not in DOAJ"
DoajValue_FailedIsFalse(old, answer) ==
    IF answer = "in_doaj" THEN TrueText ELSE FalseText

\* current_row["doaj"] after an answer
DoajValue(old, answer) ==
    CASE answer = "in_doaj" -> TrueText
      [] answer = "not_in_doaj" -> FalseText
      [] answer = "failed" -> old

\* a variant of CrossrefFailed that leaves the row as it is
CrossrefFailed_Untouched(row) == row

\* current_row after a failed Crossref lookup
CrossrefFailed(row) == [row EXCEPT !["indexed_in_crossref"] = FalseText]

-----------------------------------------------------------------------------
(* main(): its steps *)

\* the variables of main() while only a CSVColumn is driven
MainIdle ==
    /\ args = [force |-> FALSE, ignore_header |-> FALSE,
               index |-> [role \in ForcibleRoles |-> NoIndex]]
    /\ has_header = FALSE
    /\ file = <<>>
    /\ world = [crossref |-> {}, pubmed |-> {}, doaj |-> {}]
    /\ num_columns = 0
    /\ column_map = EmptyDict
    /\ keys = <<>>
    /\ header = <<>>
    /\ column_candidates = NoCandidates
    /\ pc = "idle"
    /\ row_num = 0
    /\ header_processed = FALSE
    /\ enriched_content = <<>>
    /\ error_messages = <<>>
    /\ current_row = EmptyDict
    /\ doi = NA
    /\ data = EmptyDict
    /\ pending = <<>>
    /\ issns = <<>>
    /\ lookups = <<>>
    /\ out_csv = <<>>

\* main() after the construction of column_map, for a command line a, a
\* file f with or without header and metadata sources w
Started(a, hh, f, w) ==
    /\ args = a
    /\ has_header = hh
    /\ file = f
    /\ world = w
    /\ num_columns = Len(f[1])
    /\ column_map = InitialColumnMap(a)
    /\ keys = KnownRoles
    /\ header = <<>>
    /\ column_candidates = NoCandidates
    /\ pc = "header"
    /\ row_num = 0
    /\ header_processed = FALSE
    /\ enriched_content = <<>>
    /\ error_messages = <<>>
    /\ current_row = EmptyDict
    /\ doi = NA
    /\ data = EmptyDict
    /\ pending = <<>>
    /\ issns = <<>>
    /\ lookups = <<>>
    /\ out_csv = <<>>
    /\ column = CSVColumn("publisher", OPTIONAL, NoIndex, "")
    /\ call = NoCall
    /\ approved = {}
    /\ rejected = {}

\* "*** Analyzing CSV header ***": the first non-empty row is the header
AnalyzeHeader ==
    /\ pc = "header"
    /\ LET at == HeaderPosition(file, has_header) IN
       IF at = 0
       THEN UNCHANGED <<header, column_map>>
       ELSE /\ header' = file[at]
            /\ column_map' = IF args.ignore_header THEN column_map
                             ELSE MatchHeader(column_map, file[at], 0)
    /\ pc' = "heuristics"
    /\ UNCHANGED <<colVars, call, inputVars, keys, column_candidates, rowVars>>

\* "*** Starting heuristical analysis ***": the first non-empty row behind
\* the header is scanned for a DOI, a year and a monetary amount
HeuristicalAnalysis ==
    /\ pc = "heuristics"
    /\ LET at == SamplePosition(file, has_header) IN
       IF at = 0
       THEN /\ pc' = "wrapup"
            /\ UNCHANGED <<column_map, column_candidates>>
       ELSE IF SniffRaises(column_map, header, file[at])
       THEN /\ pc' = "crashed"
            /\ UNCHANGED <<column_map, column_candidates>>
       ELSE /\ column_candidates' =
                   [column_type \in SniffedRoles |->
                       Candidates(column_map, file[at], column_type)]
            /\ column_map' = Sniff(column_map, header, file[at])
            /\ pc' = "wrapup"
    /\ UNCHANGED <<colVars, call, inputVars, keys, header, rowVars>>

\* the check for mandatory columns left unidentified
MandatoryCheck ==
    /\ pc = "wrapup"
    /\ pc' = IF Unassigned(column_map) # {} /\ ~args.force
             THEN "exit"
             ELSE "summary"
    /\ UNCHANGED <<colVars, call, inputVars, analysisVars, rowVars>>

\* "*** CSV file analysis summary ***": the unknown columns are appended
AnalysisSummary ==
    /\ pc = "summary"
    /\ LET reg == AppendUnknown([map |-> column_map, keys |-> keys], header,
                                AssignedIndices(column_map), 0, num_columns)
       IN /\ column_map' = reg.map
          /\ keys' = reg.keys
    /\ pc' = "confirm"
    /\ UNCHANGED <<colVars, call, inputVars, header, column_candidates,
                   rowVars>>

\* "Start metadata aggregation? (y/n)"
StartAggregation ==
    /\ pc = "confirm"
    /\ \E start \in {"y", "n"} :
           pc' = IF start = "n" THEN "exit" ELSE "rows"
    /\ UNCHANGED <<colVars, call, inputVars, analysisVars, rowVars>>

\* enriched_content.append(current_row.values()) and on to the next row
Appended(row) ==
    /\ enriched_content' = Append(enriched_content, RowValues(row, keys))
    /\ pc' = "rows"

\* a variant of AfterPubmed that leaves the DOAJ step out
AfterPubmed_SkipDoaj(row) ==
    /\ issns' = <<>>
    /\ Appended(row)

\* the start of the DOAJ step for the row as merged so far: the
\* candidates are collected; without any, the row is appended right away
AfterPubmed(row) ==
    /\ issns' = DoajCandidates(row)
    /\ IF DoajCandidates(row) = <<>>
       THEN Appended(row)
       ELSE pc' = "doaj" /\ UNCHANGED enriched_content

\* one turn of "for row in reader" up to the Crossref lookup
ReadRow ==
    /\ pc = "rows"
    /\ row_num < Len(file)
    /\ row_num' = row_num + 1
    /\ LET row == file[row_num + 1]
           first == ~header_processed
           content == IF first THEN Append(enriched_content, keys)
                      ELSE enriched_content
       IN IF row = <<>>
          THEN UNCHANGED <<pc, header_processed, enriched_content,
                           error_messages, current_row, doi, lookups>>
          ELSE /\ header_processed' = TRUE
               /\ IF first /\ has_header
                  THEN /\ enriched_content' = content
                       /\ UNCHANGED <<pc, error_messages, current_row, doi,
                                      lookups>>
                  ELSE IF LengthDiffers(row, num_columns)
                  THEN /\ error_messages' =
                              Append(error_messages,
                                     Message(row_num + 1, "syntax", Len(row)))
                       /\ enriched_content' = Append(content, row)
                       /\ UNCHANGED <<pc, current_row, doi, lookups>>
                  ELSE LET status == BuildStatus(column_map, keys, row) IN
                       IF status = "ok"
                       THEN /\ doi' = row[column_map["doi"].index + 1]
                            /\ current_row' = BuildRow(column_map, keys, row)
                            /\ enriched_content' = content
                            /\ lookups' = <<>>
                            /\ pc' = "crossref"
                            /\ UNCHANGED error_messages
                       ELSE /\ pc' = IF status = "exit" THEN "exit"
                                     ELSE "crashed"
                            /\ enriched_content' = content
                            /\ UNCHANGED <<error_messages, current_row, doi,
                                           lookups>>
    /\ UNCHANGED <<colVars, call, inputVars, analysisVars, data, pending,
                   issns, out_csv>>

\* oat.get_metadata_from_crossref(doi) and what follows at once
QueryCrossref ==
    /\ pc = "crossref"
    /\ \E result \in world.crossref :
           /\ lookups' = Append(lookups,
                                [source |-> "crossref", key |-> doi,
                                 answer |-> IF result.success THEN "success"
                                            ELSE "failed"])
           /\ IF result.success
              THEN /\ current_row' =
                          [current_row EXCEPT
                               !["indexed_in_crossref"] = TrueText]
                   /\ data' = result.data
                   /\ pending' = CrossrefKeys
                   /\ pc' = "crossref_merge"
                   /\ UNCHANGED error_messages
              ELSE /\ error_messages' =
                          Append(error_messages,
                                 Message(row_num, "crossref", doi))
                   /\ current_row' = CrossrefFailed(current_row)
                   /\ pc' = "pubmed"
                   /\ UNCHANGED <<data, pending>>
    /\ UNCHANGED <<colVars, call, inputVars, analysisVars, row_num,
                   header_processed, enriched_content, doi, issns, out_csv>>

\* one turn of "for key, value in data.iteritems()": the field is merged
\* through check_overwrite of its column
Merged(new_value, ret) ==
    LET key == Head(pending)
        out == check_overwrite(column_map[key], current_row[key],
                               new_value, ret)
    IN /\ column_map' = [column_map EXCEPT ![key] = out.self]
       /\ current_row' = [current_row EXCEPT ![key] = out.value]
       /\ call' = CallRecord(current_row[key], new_value, out, ret)
       /\ pending' = Tail(pending)

MergeCrossrefField ==
    /\ pc = "crossref_merge"
    /\ LET key == Head(pending)
           new_value == CrossrefNewValue(key, data[key])
       IN \E ret \in AnswersOf(column_map[key], current_row[key], new_value) :
              Merged(new_value, ret)
    /\ pc' = IF Tail(pending) = <<>> THEN "pubmed" ELSE "crossref_merge"
    /\ UNCHANGED <<colVars, inputVars, keys, header, column_candidates,
                   row_num, header_processed, enriched_content,
                   error_messages, doi, data, issns, lookups, out_csv>>

\* oat.get_metadata_from_pubmed(doi) and what follows at once
QueryPubmed ==
    /\ pc = "pubmed"
    /\ \E result \in world.pubmed :
           /\ lookups' = Append(lookups,
                                [source |-> "pubmed", key |-> doi,
                                 answer |-> IF result.success THEN "success"
                                            ELSE "failed"])
           /\ IF result.success
              THEN /\ data' = result.data
                   /\ pending' = PubmedKeys
                   /\ pc' = "pubmed_merge"
                   /\ UNCHANGED <<error_messages, issns, enriched_content>>
              ELSE /\ error_messages' =
                          Append(error_messages,
                                 Message(row_num, "pubmed", doi))
                   /\ AfterPubmed(current_row)
                   /\ UNCHANGED <<data, pending>>
    /\ UNCHANGED <<colVars, call, inputVars, analysisVars, row_num,
                   header_processed, current_row, doi, out_csv>>

MergePubmedField ==
    /\ pc = "pubmed_merge"
    /\ LET key == Head(pending)
           new_value == PubmedNewValue(key, data[key])
       IN \E ret \in AnswersOf(column_map[key], current_row[key], new_value) :
              Merged(new_value, ret)
    /\ IF Tail(pending) = <<>>
       THEN AfterPubmed(current_row')
       ELSE UNCHANGED <<pc, issns, enriched_content>>
    /\ UNCHANGED <<colVars, inputVars, keys, header, column_candidates,
                   row_num, header_processed, error_messages, doi, data,
                   lookups, out_csv>>

\* one turn of "for issn in issns": oat.lookup_journal_in_doaj(issn)
LookupDoaj ==
    /\ pc = "doaj"
    /\ \E answer \in world.doaj :
           LET issn == Head(issns)
               row == [current_row EXCEPT
                           !["doaj"] = DoajValue(@, answer)]
           IN /\ lookups' = Append(lookups,
                                   [source |-> "doaj", key |-> issn,
                                    answer |-> answer])
              /\ current_row' = row
              /\ error_messages' =
                     IF answer = "failed"
                     THEN Append(error_messages,
                                 Message(row_num, "doaj", issn))
                     ELSE error_messages
              /\ IF DoajGoesOn(answer) /\ Tail(issns) # <<>>
                 THEN /\ issns' = Tail(issns)
                      /\ UNCHANGED <<pc, enriched_content>>
                 ELSE /\ issns' = Tail(issns)
                      /\ Appended(row)
    /\ UNCHANGED <<colVars, call, inputVars, analysisVars, row_num,
                   header_processed, doi, data, pending, out_csv>>

\* the reader is exhausted: out.csv is written
WriteOutput ==
    /\ pc = "rows"
    /\ row_num = Len(file)
    /\ out_csv' = enriched_content
    /\ pc' = "done"
    /\ UNCHANGED <<colVars, call, inputVars, analysisVars, row_num,
                   header_processed, enriched_content, error_messages,
                   current_row, doi, data, pending, issns, lookups>>

AnalysisNext ==
    \/ AnalyzeHeader
    \/ HeuristicalAnalysis
    \/ MandatoryCheck
    \/ AnalysisSummary

MainNext ==
    \/ AnalyzeHeader
    \/ HeuristicalAnalysis
    \/ MandatoryCheck
    \/ AnalysisSummary
    \/ StartAggregation
    \/ ReadRow
    \/ QueryCrossref
    \/ MergeCrossrefField
    \/ QueryPubmed
    \/ MergePubmedField
    \/ LookupDoaj
    \/ WriteOutput

-----------------------------------------------------------------------------
(* The command lines, files and metadata sources main() is run with *)

\* the number of columns of the files of the analysis specification
NumCols == 3

\* at most this many data rows follow the header
MaxRows == 2

Institution == <<"U">>
Year == <<"2", "0", "2", "1">>
OldYear == <<"1", "9", "9", "9">>
Amount == <<"1", "5", "0", "0">>
LargeAmount == <<"7", "0", "0", "0", ".", "5", "0">>
CommaAmount == <<"1", "5", "0", "0", ",", "5">>
Doi == <<"1", "0", ".", "1", "/", "x">>
Issn == <<"1", "-", "1">>
IssnCrossref == <<"1", "-", "2">>
IssnPrint == <<"1", "-", "3">>
IssnElectronic == <<"1", "-", "4">>

\* the roles that get an index from the command line
ForcedRoles == {"doi", "euro"}

NoForcedIndex == [role \in ForcibleRoles |-> NoIndex]

\* the index arguments that set some of the roles, to indices below cols
ForcedIndices(roles, cols) ==
    {[role \in ForcibleRoles |->
         IF role \in roles THEN given[role] ELSE NoIndex] :
     given \in [roles -> {NoIndex} \cup 0..(cols - 1)]}

CommandLine(force, ignore_header, index) ==
    [force |-> force, ignore_header |-> ignore_header, index |-> index]

\* every lookup fails: no metadata source is available
Offline ==
    [crossref |-> {[success |-> FALSE]},
     pubmed |-> {[success |-> FALSE]},
     doaj |-> {"failed"}]

(* The analysis specification: files of NumCols columns *)

HeaderCells == {"doi", "DOI", "euro", "unknown", ""}

SampleCells == {Doi, Year, Amount, Institution}

\* a header without any known name, a sample row without any known shape
PlainHeader == [i \in 1..NumCols |-> "a"]

PlainSample == [i \in 1..NumCols |-> Institution]


Rows(cells, n) == [1..n -> cells]

\* headers of every kind over a plain sample row
AnalysisInitHeaders ==
    \E hdr \in Rows(HeaderCells, NumCols),
       index \in ForcedIndices(ForcedRoles, NumCols),
       ignore_header \in BOOLEAN :
        Started(CommandLine(TRUE, ignore_header, index), TRUE,
                <<hdr, PlainSample>>, Offline)

\* a header that names doi in its first cell and no other role
DoiHeader == [i \in 1..NumCols |-> IF i = 1 THEN "doi" ELSE "a"]

\* sample rows of every kind, without header, under a plain one or under
\* one that names doi
AnalysisInitSamples ==
    \E row \in Rows(SampleCells, NumCols),
       index \in ForcedIndices(ForcedRoles, NumCols),
       hdr \in {<<>>, PlainHeader, DoiHeader}, force \in BOOLEAN :
        Started(CommandLine(force, FALSE, index), hdr # <<>>,
                IF hdr # <<>> THEN <<hdr, row>> ELSE <<row>>, Offline)

AnalysisInit == AnalysisInitHeaders \/ AnalysisInitSamples

AnalysisSpec == AnalysisInit /\ [][AnalysisNext]_vars

(* The main specification: files of six columns *)

BaseHeader ==
    <<"institution", "period", "euro", "doi", "is_hybrid", "issn">>

\* the base header, and the base header with one cell named "x"
Headers ==
    {BaseHeader} \cup
    {[BaseHeader EXCEPT ![i] = "x"] : i \in 1..Len(BaseHeader)}

\* a row with a value of the expected shape in every column
GoodRow == <<Institution, Year, Amount, Doi, TrueText, Issn>>

\* a row without DOI and ISSN, whose year and amount are out of the
\* ranges the heuristical analysis accepts
OddRow ==
    <<Institution, OldYear, LargeAmount, EmptyText, FalseText, EmptyText>>

\* a row with fewer cells than the header
ShortRow == <<Institution, Year>>

\* a row whose amount has a decimal comma
CommaRow == <<Institution, Year, CommaAmount, Doi, TrueText, Issn>>

\* a row with more cells than the header
LongRow == Append(GoodRow, Institution)

DataRows == {GoodRow, OddRow, ShortRow, LongRow, CommaRow, <<>>}

\* the sequences of 1 to n rows
RECURSIVE RowSeqs(_, _)
RowSeqs(rows, n) ==
    IF n = 0 THEN {}
    ELSE {<<row>> : row \in rows} \cup
         {Append(f, row) : f \in RowSeqs(rows, n - 1), row \in rows}

\* the record Crossref returns: every field but the licence, with an ISSN
\* that differs from the one of the file
CrossrefFull ==
    [publisher |-> <<"p">>, journal_full_title |-> <<"j">>,
     issn |-> IssnCrossref, issn_print |-> IssnPrint,
     issn_electronic |-> IssnElectronic, license_ref |-> None]

\* the same with the ISSN of the file
CrossrefSame == [CrossrefFull EXCEPT !.issn = Issn]

\* a record with every field absent
CrossrefSparse == [k \in Range(CrossrefKeys) |-> None]

PubmedFull == [pmid |-> <<"7">>, pmcid |-> None]

Failure == [success |-> FALSE]

Success(record) == [success |-> TRUE, data |-> record]

\* Crossref answers, the others fail
CrossrefOnly ==
    [crossref |-> {Failure, Success(CrossrefFull), Success(CrossrefSparse)},
     pubmed |-> {Failure},
     doaj |-> {"failed"}]

\* Crossref names three ISSNs, DOAJ answers
DoajOnly ==
    [crossref |-> {Success(CrossrefSame)},
     pubmed |-> {Failure},
     doaj |-> DoajAnswers]

\* every source answers or fails
Mixed ==
    [crossref |-> {Failure, Success(CrossrefSame)},
     pubmed |-> {Failure, Success(PubmedFull)},
     doaj |-> {"failed", "in_doaj"}]

\* files of every kind under headers of every kind, or without header;
\* no metadata source is available
MainInitFiles ==
    \E hdr \in Headers, rows \in RowSeqs(DataRows, MaxRows),
       hh \in BOOLEAN, force \in BOOLEAN :
        Started(CommandLine(force, FALSE, NoForcedIndex), hh,
                IF hh THEN <<hdr>> \o rows ELSE rows, Offline)

\* indices given on the command line, up to one beyond the last column
MainInitForced ==
    \E index \in ForcedIndices(ForcedRoles, Len(BaseHeader) + 1),
       force \in BOOLEAN :
        Started(CommandLine(force, FALSE, index), TRUE,
                <<BaseHeader, GoodRow>>, Offline)

\* good rows under the base header, with metadata sources that answer
MainInitSources ==
    \E rows \in RowSeqs({GoodRow}, MaxRows),
       w \in {CrossrefOnly, DoajOnly, Mixed} :
        Started(CommandLine(FALSE, FALSE, NoForcedIndex), TRUE,
                <<BaseHeader>> \o rows, w)

\* a good row whose ISSN cell holds one space
SpaceIssnRow == [GoodRow EXCEPT ![6] = <<" ">>]

\* a record of Pubmed with every field absent
PubmedAbsent == [k \in Range(PubmedKeys) |-> None]

\* Crossref and Pubmed answer, with records that lack fields
AbsentFields ==
    [crossref |-> {Success(CrossrefSparse), Success(CrossrefFull)},
     pubmed |-> {Success(PubmedAbsent)},
     doaj |-> {"failed"}]

\* rows with an ISSN or a blank in its place, with metadata sources that
\* report fields as absent
MainInitAbsent ==
    \E rows \in RowSeqs({GoodRow, SpaceIssnRow}, MaxRows) :
        Started(CommandLine(FALSE, FALSE, NoForcedIndex), TRUE,
                <<BaseHeader>> \o rows, AbsentFields)

MainInit ==
    MainInitFiles \/ MainInitForced \/ MainInitSources \/ MainInitAbsent

MainSpec == MainInit /\ [][MainNext]_vars

-----------------------------------------------------------------------------
(* The column specifications: one CSVColumn receiving arbitrary calls *)

\* the values the calls are made with: NA, empty, whitespace only,
\* plain, padded
Values ==
    {NA, EmptyText, <<" ">>, <<"a">>, <<" ", "b">>}

\* the values of the calls when the history of answers is recorded
HistValues ==
    {NA, <<" ">>, <<"a">>, <<" ", "b">>}

ColInit ==
    /\ column = CSVColumn("publisher", OPTIONAL, NoIndex, "")
    /\ call = NoCall
    /\ approved = {}
    /\ rejected = {}
    /\ MainIdle

\* column.check_overwrite(old_value, new_value), answered ret if it asks
Called(old_value, new_value, ret) ==
    LET out == check_overwrite(column, old_value, new_value, ret) IN
    /\ column' = out.self
    /\ call' = CallRecord(old_value, new_value, out, ret)

CheckOverwrite ==
    \E old_value \in Values, new_value \in Values :
        \E ret \in AnswersOf(column, old_value, new_value) :
            /\ Called(old_value, new_value, ret)
            /\ UNCHANGED <<approved, rejected, mainVars>>

\* the same calls, with the pairs answered "2" and "5" written down
RecordedCheckOverwrite ==
    \E old_value \in HistValues, new_value \in HistValues :
        \E ret \in AnswersOf(column, old_value, new_value) :
            /\ Called(old_value, new_value, ret)
            /\ approved' = IF ret = "2"
                           THEN approved \cup {<<old_value, new_value>>}
                           ELSE approved
            /\ rejected' = IF ret = "5"
                           THEN rejected \cup {<<old_value, new_value>>}
                           ELSE rejected
            /\ UNCHANGED mainVars

ColNext == CheckOverwrite

ColSpec == ColInit /\ [][ColNext]_vars

HistNext == RecordedCheckOverwrite

HistSpec == ColInit /\ [][HistNext]_vars

-----------------------------------------------------------------------------
(* Properties of check_overwrite *)

\* a text made of whitespace only (the empty text included)
Blank(v) == \A i \in 1..Len(v) : v[i] \in WhiteSpace

\* the last call was check_overwrite(o, n)
CallOn(c, o, n) == c.made /\ c.old_value = o /\ c.new_value = n

\* C1 as stated: once a pair <<o, n>> has been answered "2", every later
\* call check_overwrite(o, n) returns n without prompting, whatever was
\* answered in between (answer "6" included).
C1_Original ==
    [][\A p \in approved :
          CallOn(call', p[1], p[2]) =>
              call'.value = p[2] /\ ~call'.prompted]_vars

\* C1 amended: once a pair <<o, n>> has been answered "2", no later call
\* check_overwrite(o, n) prompts; it returns n unless the policy of the
\* column has become NEVER in between, in which case it returns o.
C1_WhitelistedPairOverwrites ==
    [][\A p \in approved :
          CallOn(call', p[1], p[2]) =>
              /\ ~call'.prompted
              /\ call'.value =
                    IF column.overwrite = OW_NEVER THEN p[1] ELSE p[2]]_vars

\* a call on a pair approved earlier returned the new value unasked, after
\* another pair had been rejected on the column
C1_Witness ==
    /\ <<call.old_value, call.new_value>> \in approved
    /\ call.made /\ ~call.prompted
    /\ call.value = call.new_value
    /\ rejected # {}

C3_Original ==
    [][column.overwrite = OW_NEVER /\ call'.made =>
          call'.value = call'.old_value]_vars

\* C3 amended: with the policy NEVER, check_overwrite(old, new) returns old
\* for every pair of values whose old is neither NA nor blank; for old = NA
\* or blank it returns new.  It never prompts and the policy stays NEVER.
C3_NeverKeepsPresentValues ==
    [][column.overwrite = OW_NEVER /\ call'.made =>
          /\ call'.value =
                IF call'.old_value = NA \/ Blank(call'.old_value)
                THEN call'.new_value
                ELSE call'.old_value
          /\ ~call'.prompted
          /\ column'.overwrite = OW_NEVER]_vars

\* under NEVER a present value was kept against a different new one,
\* although its old value is a key of the whitelist
C3_Witness ==
    /\ column.overwrite = OW_NEVER
    /\ call.made /\ ~call.prompted
    /\ call.old_value # call.new_value
    /\ ~Blank(call.old_value) /\ call.old_value # NA
    /\ call.old_value \in DOMAIN column.overwrite_whitelist
    /\ call.value = call.old_value

\* C4: with the policy ALWAYS, check_overwrite(old, new) returns new for
\* every pair of values, without prompting and whatever the whitelist and
\* the blacklist hold; the policy stays ALWAYS.
C4_AlwaysOverwrites ==
    [][column.overwrite = OW_ALWAYS /\ call'.made =>
          /\ call'.value = call'.new_value
          /\ ~call'.prompted
          /\ column'.overwrite = OW_ALWAYS]_vars

\* under ALWAYS a blacklisted pair was overwritten unasked
C4_Witness ==
    /\ column.overwrite = OW_ALWAYS
    /\ call.made /\ ~call.prompted
    /\ call.old_value # call.new_value
    /\ call.old_value \in DOMAIN column.overwrite_blacklist
    /\ column.overwrite_blacklist[call.old_value] = call.new_value
    /\ call.value = call.new_value

\* C5: in every reachable state of a column, check_overwrite(old, v) with
\* old = NA or old blank and v not NA returns v, does not prompt and leaves
\* policy, whitelist and blacklist as they were.
C5_MissingIsFilled ==
    [][(/\ call'.made
        /\ call'.old_value = NA \/ Blank(call'.old_value)
        /\ call'.new_value # NA) =>
          /\ call'.value = call'.new_value
          /\ ~call'.prompted
          /\ column' = column]_vars

\* a whitespace-only value was replaced under the policy NEVER
C5_Witness ==
    /\ call.made /\ ~call.prompted
    /\ call.old_value = <<" ">>
    /\ call.new_value \notin {NA, call.old_value}
    /\ call.value = call.new_value
    /\ column.overwrite = OW_NEVER

\* C6: in every reachable state of a column, check_overwrite(v, v) returns
\* v, NA included, does not prompt and leaves policy, whitelist and
\* blacklist as they were.
C6_EqualValuesNoOp ==
    [][call'.made /\ call'.old_value = call'.new_value =>
          /\ call'.value = call'.old_value
          /\ ~call'.prompted
          /\ column' = column]_vars

\* a call with twice the same present value under ASK with nothing stored
\* for it, where a differing new value would have been asked about
C6_Witness ==
    /\ call.made /\ ~call.prompted
    /\ call.old_value = call.new_value
    /\ call.old_value = <<"a">>
    /\ call.value = <<"a">>
    /\ column.overwrite = OW_ASK
    /\ <<"a">> \notin DOMAIN column.overwrite_whitelist
    /\ <<"a">> \notin DOMAIN column.overwrite_blacklist

\* C20: under the policy ASK, when the old value is a key of the whitelist
\* and the pair is not in the blacklist, check_overwrite(old, new) returns
\* new without prompting for every new value, also for one that differs
\* from the value the whitelist holds for old.
C20_WhitelistKeyedByOldValue ==
    [][(/\ call'.made
        /\ column.overwrite = OW_ASK
        /\ call'.old_value \in DOMAIN column.overwrite_whitelist
        /\ ~(/\ call'.old_value \in DOMAIN column.overwrite_blacklist
             /\ column.overwrite_blacklist[call'.old_value] =
                    call'.new_value)) =>
          /\ call'.value = call'.new_value
          /\ ~call'.prompted]_vars

\* under ASK a value was overwritten unasked by a new value other than the
\* one approved for it, while another new value is rejected for it
C20_Witness ==
    /\ column.overwrite = OW_ASK
    /\ call.made /\ ~call.prompted
    /\ call.old_value # call.new_value
    /\ call.old_value \in DOMAIN column.overwrite_whitelist
    /\ column.overwrite_whitelist[call.old_value] # call.new_value
    /\ call.old_value \in DOMAIN column.overwrite_blacklist
    /\ column.overwrite_blacklist[call.old_value] # call.new_value
    /\ call.value = call.new_value

\* C21: under the policy ASK the blacklist is consulted before the
\* whitelist: when the blacklist holds new for old, check_overwrite(old,
\* new) returns old without prompting, also when old is a key of the
\* whitelist.
C21_BlacklistBeforeWhitelist ==
    [][(/\ call'.made
        /\ column.overwrite = OW_ASK
        /\ call'.old_value \in DOMAIN column.overwrite_blacklist
        /\ column.overwrite_blacklist[call'.old_value] = call'.new_value) =>
          /\ call'.value = call'.old_value
          /\ ~call'.prompted]_vars

\* under ASK a rejected pair was kept unasked although another new value
\* is approved for its old value
C21_Witness ==
    /\ column.overwrite = OW_ASK
    /\ call.made /\ ~call.prompted
    /\ call.old_value # call.new_value
    /\ call.old_value \in DOMAIN column.overwrite_blacklist
    /\ column.overwrite_blacklist[call.old_value] = call.new_value
    /\ call.old_value \in DOMAIN column.overwrite_whitelist
    /\ column.overwrite_whitelist[call.old_value] # call.new_value
    /\ call.value = call.old_value

\* C23: the policy of a column is absorbing once it has left ASK: with
\* the policy ALWAYS or NEVER no call of check_overwrite prompts, changes
\* the policy, or changes the whitelist or the blacklist of the column.
C23_PolicyAbsorbing ==
    [][column.overwrite # OW_ASK =>
          /\ column'.overwrite = column.overwrite
          /\ column'.overwrite_whitelist = column.overwrite_whitelist
          /\ column'.overwrite_blacklist = column.overwrite_blacklist
          /\ call'.made /\ ~call'.prompted]_vars

\* with the policy ALWAYS, after a pair was approved and another
\* rejected, a call was made on a present value that is in neither list
\* with a differing new value, and was not asked about
C23_Witness ==
    /\ column.overwrite = OW_ALWAYS
    /\ approved # {} /\ rejected # {}
    /\ call.made /\ ~call.prompted
    /\ call.old_value # call.new_value
    /\ call.old_value # NA /\ ~Blank(call.old_value)
    /\ call.old_value \notin DOMAIN column.overwrite_whitelist
    /\ call.old_value \notin DOMAIN column.overwrite_blacklist
    /\ call.value = call.new_value

\* no new value is both approved and rejected for the same old value
NoPairInBothLists(self) ==
    \A o \in DOMAIN self.overwrite_whitelist
           \cap DOMAIN self.overwrite_blacklist :
        self.overwrite_whitelist[o] # self.overwrite_blacklist[o]

\* every entry of the whitelist is still there, with the same new value
WhitelistKept ==
    \A o \in DOMAIN column.overwrite_whitelist :
        /\ o \in DOMAIN column'.overwrite_whitelist
        /\ column'.overwrite_whitelist[o] = column.overwrite_whitelist[o]

\* C24: in every reachable state of a column no pair is both in the
\* whitelist and in the blacklist, and an entry of the whitelist, once
\* stored for an old value, is never replaced or removed by a later call
\* of check_overwrite.
C24_ListsDisjointWhitelistStable ==
    /\ []NoPairInBothLists(column)
    /\ [][WhitelistKept]_vars

\* an old value has one new value approved and another rejected, and a
\* call with a third new value for it was answered from the whitelist
C24_Witness ==
    /\ column.overwrite = OW_ASK
    /\ call.made /\ ~call.prompted
    /\ call.old_value \in DOMAIN column.overwrite_whitelist
    /\ call.old_value \in DOMAIN column.overwrite_blacklist
    /\ call.new_value \notin {call.old_value,
                              column.overwrite_whitelist[call.old_value],
                              column.overwrite_blacklist[call.old_value]}
    /\ column.overwrite_whitelist[call.old_value]
           # column.overwrite_blacklist[call.old_value]
    /\ <<call.old_value, column.overwrite_whitelist[call.old_value]>>
           \in approved
    /\ call.value = call.new_value

-----------------------------------------------------------------------------
(* Properties of the metadata aggregation loop *)

\* the lookups of a source made so far for the current row
LookupsOf(source) ==
    SelectSeq(lookups, LAMBDA e : e.source = source)

\* this step is a lookup: one entry is added to the log of the row
IsLookup == Len(lookups') = Len(lookups) + 1

\* the entry a lookup step adds
ThisLookup == lookups'[Len(lookups')]

\* C7: in the DOAJ fallback chain the loop over the ISSN candidates stops
\* at the first candidate whose lookup returns a received response, also
\* one that says "not in DOAJ"; a later candidate is queried only when the
\* lookup of every earlier candidate failed outright.
C7_Original ==
    \A i \in 1..Len(LookupsOf("doaj")) :
        i < Len(LookupsOf("doaj")) => LookupsOf("doaj")[i].answer = "failed"

\* C7, amended: the candidates are looked up in the order electronic
\* ISSN, ISSN, print ISSN, and the loop stops only at the first candidate
\* found in DOAJ or at the end of the list: the next candidate is queried
\* after every lookup that failed and after every response that says "not
\* in DOAJ", and never after a response that says "in DOAJ".
C7_DoajStopsAtFirstPositive ==
    [][pc = "doaj" =>
          LET candidates == DoajCandidates(current_row)
              done == Len(LookupsOf("doaj"))
          IN /\ \A i \in 1..done : LookupsOf("doaj")[i].answer # "in_doaj"
             /\ done < Len(candidates)
             /\ IsLookup
             /\ ThisLookup.source = "doaj"
             /\ ThisLookup.key = candidates[done + 1]
             /\ (pc' = "doaj") <=>
                    /\ ThisLookup.answer # "in_doaj"
                    /\ done + 1 < Len(candidates)
             /\ pc' # "doaj" =>
                    /\ pc' = "rows"
                    /\ enriched_content' =
                           Append(enriched_content,
                                  RowValues(current_row', keys))]_vars

\* a response "not in DOAJ" was received and the next candidate was queried
C7_Witness ==
    \E i \in 1..Len(LookupsOf("doaj")) :
        /\ i < Len(LookupsOf("doaj"))
        /\ LookupsOf("doaj")[i].answer = "not_in_doaj"
        /\ current_row["doaj"] = FalseText

\* C8: when a metadata source reports failure for a row (Crossref, Pubmed
\* or the DOAJ lookup of a candidate), a per-row diagnostic is recorded and
\* no field of the current row is modified by the step of that source.
C8_Original ==
    [][IsLookup /\ ThisLookup.answer = "failed" =>
          /\ error_messages' =
                 Append(error_messages,
                        Message(row_num, ThisLookup.source, ThisLookup.key))
          /\ current_row' = current_row]_vars

\* C8, amended: when a metadata source reports failure for a row, one
\* diagnostic naming the line and the source is recorded; a failure of
\* Pubmed or of a DOAJ lookup modifies no field of the current row, a
\* failure of Crossref sets its field indexed_in_crossref to "FALSE" and
\* modifies no other field.
C8_FailureRecordedRowKept ==
    [][IsLookup /\ ThisLookup.answer = "failed" =>
          /\ error_messages' =
                 Append(error_messages,
                        Message(row_num, ThisLookup.source, ThisLookup.key))
          /\ current_row' =
                 IF ThisLookup.source = "crossref"
                 THEN [current_row EXCEPT
                           !["indexed_in_crossref"] = FalseText]
                 ELSE current_row]_vars

\* the three sources have failed for a row, each with its diagnostic, and
\* the row holds "FALSE" for indexed_in_crossref
C8_Witness ==
    /\ \A source \in {"crossref", "pubmed", "doaj"} :
           /\ \E i \in 1..Len(lookups) :
                  lookups[i].source = source /\ lookups[i].answer = "failed"
           /\ \E i \in 1..Len(error_messages) :
                  /\ error_messages[i].source = source
                  /\ error_messages[i].line = row_num
    /\ current_row["indexed_in_crossref"] = FalseText
    /\ current_row["doaj"] = NA

(* Properties of the analysis of the file *)

\* the position of a role in the rows of the output
Position(k) == CHOOSE i \in 1..Len(keys) : keys[i] = k

\* every index of column_map is None or the index of a column of the file
IndicesInFile ==
    \A k \in DOMAIN column_map : column_map[k].index < num_columns

\* the rows of the output built from current_row: the rows behind the
\* header row that have a value for every key
BuiltRows(content) ==
    {i \in 2..Len(content) : Len(content[i]) = Len(keys)}

\* C9: in force mode, when a mandatory role (institution, period, euro, doi
\* or is_hybrid) is left unassigned after the analysis, the run proceeds
\* through every row and every row of the output carries NA for that role;
\* this holds for each of the mandatory roles, doi included.
C9_ForcedRunCarriesNA ==
    \A k \in MandatoryRoles :
        (/\ args.force
         /\ header_processed
         /\ IndicesInFile
         /\ column_map[k].index = NoIndex)
        => /\ pc # "crashed"
           /\ pc = "done" =>
                  \A i \in BuiltRows(out_csv) : out_csv[i][Position(k)] = NA

\* C10: after the analysis (indices from the command line, header
\* analysis, heuristical analysis, unknown columns appended) no two columns
\* of column_map hold the same index, for every combination of indices
\* from the command line and header contents.
C10_IndicesUnique ==
    pc = "confirm" =>
        \A k1, k2 \in DOMAIN column_map :
            k1 # k2 /\ column_map[k1].index # NoIndex
            => column_map[k1].index # column_map[k2].index

-----------------------------------------------------------------------------
(* Properties of the rows of the output *)

\* this step appends the row built from current_row to enriched_content
AppendsRow == pc \in {"pubmed", "pubmed_merge", "doaj"} /\ pc' = "rows"

\* the row of the file main() is at
ThisRow == file[row_num]

\* the last row of a list of rows
LastOf(content) == content[Len(content)]

\* every lookup logged has failed
AllFailed(log) == \A i \in 1..Len(log) : log[i].answer = "failed"

\* the five mandatory roles have an index
MandatoryAssigned == Unassigned(column_map) = {}

\* the cells of the mandatory roles in a row are not empty
MandatoryPresent(row) ==
    \A k \in MandatoryRoles : row[column_map[k].index + 1] # EmptyText

\* C11: when the five mandatory roles are assigned to columns of the row
\* and no metadata source is available (every lookup fails), the row of the
\* output holds the five native values, and every optional and
\* non-required role, indexed_in_crossref and doaj included, is NA.
C11_Original ==
    [][AppendsRow /\ AllFailed(lookups') /\ MandatoryAssigned
       /\ MandatoryPresent(ThisRow) =>
          \A i \in 1..Len(keys) :
              LastOf(enriched_content')[i] =
                  IF column_map[keys[i]].index # NoIndex
                  THEN IF keys[i] \in MandatoryRoles
                       THEN ThisRow[column_map[keys[i]].index + 1]
                       ELSE LastOf(enriched_content')[i]
                  ELSE NA]_vars

\* C11, amended: when the five mandatory roles are assigned and every
\* lookup fails, the row of the output holds, for every role with a
\* column, the cell of that column (NA for an empty cell, and for euro the
\* number in its shortest decimal form: "7000.50" becomes "7000.5"); every
\* role without a column is NA, except indexed_in_crossref which is
\* "FALSE".
C11_OfflineRowIsNative ==
    [][AppendsRow /\ AllFailed(lookups') /\ MandatoryAssigned =>
          \A i \in 1..Len(keys) :
              LET index == column_map[keys[i]].index
                  cell == ThisRow[index + 1]
              IN LastOf(enriched_content')[i] =
                     IF keys[i] = "indexed_in_crossref" THEN FalseText
                     ELSE IF index = NoIndex THEN NA
                     ELSE IF cell = EmptyText THEN NA
                     ELSE IF keys[i] = "euro" THEN EuroStr(atof(cell))
                     ELSE cell]_vars

\* a row with values for the five mandatory roles went through three
\* failed lookups and is in the output with "FALSE" for
\* indexed_in_crossref, behind a row whose amount "7000.50" is in the
\* output as "7000.5"
C11_Witness ==
    /\ pc = "rows"
    /\ MandatoryAssigned
    /\ Len(lookups) = 3 /\ AllFailed(lookups)
    /\ row_num > 0 /\ ThisRow = GoodRow
    /\ LastOf(enriched_content)[Position("indexed_in_crossref")] = FalseText
    /\ \E i \in BuiltRows(enriched_content) :
           /\ enriched_content[i][Position("euro")] # LargeAmount
           /\ enriched_content[i][Position("euro")] = EuroStr(atof(LargeAmount))

\* this step reads the next row of the file
ReadsRow == pc = "rows" /\ row_num' = row_num + 1

\* the row about to be read
NextRow == file[row_num + 1]

\* the row about to be read is a data row: not an empty line, which is
\* skipped, and not the header row
IsDataRow == NextRow # <<>> /\ (header_processed \/ ~has_header)

\* C12: a data row whose number of cells differs from the number of
\* columns is appended to the output unchanged, produces exactly one
\* diagnostic naming its line number, triggers no lookup and no call of
\* check_overwrite (no column's overwrite state changes), and the next row
\* is processed.
C12_MismatchPassedThrough ==
    [][ReadsRow /\ IsDataRow /\ Len(NextRow) # num_columns =>
          /\ LastOf(enriched_content') = NextRow
          /\ enriched_content' =
                 Append(IF header_processed THEN enriched_content
                        ELSE Append(enriched_content, keys), NextRow)
          /\ Len(error_messages') = Len(error_messages) + 1
          /\ SubSeq(error_messages', 1, Len(error_messages))
                 = error_messages
          /\ LastOf(error_messages').line = row_num + 1
          /\ LastOf(error_messages').source = "syntax"
          /\ UNCHANGED <<lookups, call, column_map, current_row, colVars>>
          /\ pc' = "rows"]_vars

\* a row with fewer cells than columns and a row with more have been
\* passed through on consecutive lines, each with its diagnostic, and
\* main() is back at the head of the loop
C12_Witness ==
    /\ pc = "rows"
    /\ \E i, j \in 1..Len(enriched_content) :
           /\ i < j
           /\ enriched_content[i] = ShortRow
           /\ enriched_content[j] = LongRow
    /\ Len(error_messages) = 2
    /\ error_messages[1].source = "syntax"
    /\ error_messages[1].line + 1 = error_messages[2].line
    /\ num_columns = Len(BaseHeader)

\* the row has as many cells as the file has columns, the euro column has
\* a cell in it, and the cell is not empty and not a number: a decimal
\* comma, or nothing but whitespace
EuroUnparseable(row) ==
    /\ Len(row) = num_columns
    /\ column_map["euro"].index \in 0..(Len(row) - 1)
    /\ LET cell == row[column_map["euro"].index + 1] IN
       /\ cell # EmptyText
       /\ \/ \E i \in 1..Len(cell) : cell[i] \notin Digits \cup {"."}
          \/ \A i \in 1..Len(cell) : cell[i] \notin Digits

\* the run has ended before out.csv is written
Aborted == pc \in {"exit", "crashed"}

\* C13: a monetary value that cannot be parsed in a row with the right
\* number of cells ends the whole run at that row (by sys.exit(), if the
\* cells before it could be read): no further row is processed, no further
\* lookup is made, and no row is written to out.csv, not even the rows
\* aggregated before.
C13_UnparseableEuroAborts ==
    [][/\ ReadsRow /\ IsDataRow /\ EuroUnparseable(NextRow) =>
              /\ Aborted'
              /\ IndicesInFile /\ column_map["doi"].index # NoIndex
                 => pc' = "exit"
              /\ out_csv' = <<>>
              /\ UNCHANGED <<lookups, current_row, error_messages, call>>
       /\ ~Aborted]_vars

\* the run has ended at a row with a decimal comma, behind a row that had
\* been aggregated, and nothing is written
C13_Witness ==
    /\ pc = "exit"
    /\ row_num > 1
    /\ ThisRow = CommaRow
    /\ column_map["euro"].index = 2
    /\ \E i \in BuiltRows(enriched_content) :
           enriched_content[i][Position("doi")] = Doi
    /\ lookups # <<>>
    /\ out_csv = <<>>

\* the positions of main() between the construction of current_row and
\* its addition to the output
Aggregating ==
    pc \in {"crossref", "crossref_merge", "pubmed", "pubmed_merge", "doaj"}

\* the rows of the file that are not empty lines
NonEmptyRows == {i \in 1..Len(file) : file[i] # <<>>}

\* the number of rows out.csv holds when every data row is in it: the row
\* of the keys and one row for each non-empty row that is not the header
FullOutput ==
    IF NonEmptyRows = {} THEN 0
    ELSE 1 + Cardinality(NonEmptyRows) - (IF has_header THEN 1 ELSE 0)

\* C14: a failed lookup blocks nothing: for every row with the right
\* number of cells Pubmed is queried whether or not Crossref succeeded,
\* the DOAJ step runs whether or not Crossref and Pubmed succeeded, the
\* sources are consulted in the order Crossref, Pubmed, DOAJ, and a
\* failure on one row never prevents the following rows from being
\* processed and written.
C14_FailuresBlockNothing ==
    [][/\ pc = "crossref" =>
              /\ lookups = <<>>
              /\ IsLookup /\ ThisLookup.source = "crossref"
              /\ pc' = IF ThisLookup.answer = "failed" THEN "pubmed"
                       ELSE "crossref_merge"
       /\ pc = "crossref_merge" =>
              lookups' = lookups /\ pc' \in {"crossref_merge", "pubmed"}
       /\ pc = "pubmed" =>
              /\ Len(lookups) = 1
              /\ IsLookup /\ ThisLookup.source = "pubmed"
              /\ ThisLookup.answer # "failed" => pc' = "pubmed_merge"
       /\ pc = "pubmed_merge" => lookups' = lookups
       /\ pc \in {"pubmed", "pubmed_merge"} /\ pc' # "pubmed_merge" =>
              /\ issns' = DoajCandidates(current_row')
              /\ pc' = IF DoajCandidates(current_row') # <<>> THEN "doaj"
                       ELSE "rows"
       /\ pc = "doaj" =>
              /\ Len(lookups) >= 2
              /\ IsLookup /\ ThisLookup.source = "doaj"
       /\ Aggregating => Aggregating' \/ AppendsRow
       /\ AppendsRow =>
              /\ Len(enriched_content') = Len(enriched_content) + 1
              /\ row_num' = row_num
       /\ pc' = "done" => Len(out_csv') = FullOutput]_vars

\* the three sources have failed on line 2 and the row of line 3 has been
\* aggregated and written
C14_Witness ==
    /\ pc = "done"
    /\ \A source \in {"crossref", "pubmed", "doaj"} :
           \E i \in 1..Len(error_messages) :
               /\ error_messages[i].source = source
               /\ error_messages[i].line = 2
    /\ Len(file) = 3
    /\ BuiltRows(out_csv) = {2, 3}
    /\ out_csv[3][Position("doi")] = Doi

\* C19: every row appended to the output holds exactly one value for
\* every key of column_map, in the order of its keys, with NA for each
\* role that has no value; no merge step adds a role to a row or removes
\* one.
C19_Original ==
    \A i \in 2..Len(enriched_content) :
        Len(enriched_content[i]) = Len(keys)

\* C19, amended: every row of the output built from a data row with the
\* right number of cells holds exactly one value for every key of
\* column_map, in the order of its keys, with NA for each role that has no
\* column or an empty cell; no merge step adds a role to a row or removes
\* one. The other rows of the output are the row of the keys and the rows
\* with a wrong number of cells, which are appended as they are.
C19_BuiltRowsHoldEveryRole ==
    [][/\ pc' = "crossref" =>
              /\ DOMAIN current_row' = Range(keys)
              /\ \A k \in Range(keys) :
                     \/ column_map[k].index = NoIndex
                     \/ NextRow[column_map[k].index + 1] = EmptyText
                     => current_row'[k] = NA
       /\ Aggregating => DOMAIN current_row' = DOMAIN current_row
       /\ AppendsRow =>
              /\ enriched_content' =
                     Append(enriched_content,
                            [j \in 1..Len(keys) |-> current_row'[keys[j]]])
              /\ \A j \in 1..Len(keys) :
                     LastOf(enriched_content')[j] # EmptyText
       /\ enriched_content' # enriched_content /\ ~AppendsRow =>
              /\ ReadsRow
              /\ enriched_content' =
                     (IF header_processed THEN enriched_content
                      ELSE Append(enriched_content, keys))
                     \o (IF IsDataRow /\ Len(NextRow) # num_columns
                         THEN <<NextRow>> ELSE <<>>)]_vars

\* the output holds the row of the keys, a row with too few cells as it
\* was read, and a row built from the next line with a value for every
\* key, NA for the roles without value
C19_Witness ==
    /\ pc = "rows"
    /\ Len(enriched_content) = 3
    /\ enriched_content[1] = keys
    /\ enriched_content[2] = ShortRow
    /\ Len(enriched_content[3]) = Len(keys)
    /\ enriched_content[3][Position("issn")] = Issn
    /\ enriched_content[3][Position("ut")] = NA
    /\ enriched_content[3][Position("publisher")] = NA

-----------------------------------------------------------------------------
(* Properties of column_map after the analysis *)

\* the keys appended to column_map by the analysis summary
AppendedKeys == SubSeq(keys, Len(KnownRoles) + 1, Len(keys))

\* the indices below num_columns that no known role holds
UnknownIndices ==
    {index \in 0..(num_columns - 1) :
        \A k \in Range(KnownRoles) : column_map[k].index # index}

\* a name followed by n underscores
RECURSIVE Suffixed(_, _)
Suffixed(name, n) ==
    IF n = 0 THEN name ELSE Suffixed(name, n - 1) \o "_"

\* C15: every column index in 0..num_columns-1 that no known role holds
\* is appended to column_map, in ascending order of the indices, as a
\* non-required column whose key is its header text ("unknown" when there
\* is none) followed by as many "_" as needed to differ from every key
\* already in column_map; the keys stay pairwise distinct, and two such
\* columns both named "unknown" become "unknown" (lower index) and
\* "unknown_" (higher index).
C15_UnknownColumnsAppended ==
    pc = "confirm" =>
        /\ Len(AppendedKeys) = Cardinality(UnknownIndices)
        /\ \A i, j \in 1..Len(keys) : i # j => keys[i] # keys[j]
        /\ DOMAIN column_map = Range(keys)
        /\ \A j \in 1..Len(AppendedKeys) :
               LET csvc == column_map[AppendedKeys[j]]
                   before == SubSeq(keys, 1, Len(KnownRoles) + j - 1)
                   name == IF header # <<>> /\ header[csvc.index + 1] # ""
                           THEN header[csvc.index + 1]
                           ELSE "unknown"
               IN /\ csvc.index \in UnknownIndices
                  /\ csvc.requirement = NONE
                  /\ csvc.column_type = AppendedKeys[j]
                  /\ \A i \in 1..(j - 1) :
                         column_map[AppendedKeys[i]].index < csvc.index
                  /\ \E n \in 0..Len(keys) :
                         /\ AppendedKeys[j] = Suffixed(name, n)
                         /\ \A m \in 0..(n - 1) :
                                Suffixed(name, m) \in Range(before)

\* a column headed "unknown" and a column without header text have been
\* appended as "unknown" and "unknown_", and a column headed like a known
\* role that was taken as that role followed by "_"
C15_Witness ==
    /\ pc = "confirm"
    /\ "unknown" \in DOMAIN column_map /\ "unknown_" \in DOMAIN column_map
    /\ column_map["unknown"].index < column_map["unknown_"].index
    /\ header[column_map["unknown_"].index + 1] = ""
    /\ "doi_" \in DOMAIN column_map

\* the indices of the header cells that name a role
CellsOf(hdr, role) ==
    {index \in 0..(Len(hdr) - 1) :
        get_column_type_from_whitelist(hdr[index + 1]) = role}

\* the least of a non-empty set of indices
Lowest(indices) == CHOOSE i \in indices : \A j \in indices : i <= j

\* this step is the analysis of a header that is there and not ignored
MatchesHeader ==
    pc = "header" /\ pc' = "heuristics" /\ header' # <<>>
    /\ ~args.ignore_header

\* C16: in the header analysis the first occurrence wins: when several
\* header cells name the same role, the role gets the lowest of their
\* indices and the text of that cell, the later cells change nothing, and
\* a role whose index was given on the command line keeps it whatever the
\* header holds.
C16_FirstHeaderCellWins ==
    [][MatchesHeader =>
          \A role \in Range(KnownRoles) :
              column_map'[role] =
                  IF column_map[role].index = NoIndex
                     /\ CellsOf(header', role) # {}
                  THEN [column_map[role] EXCEPT
                            !.index = Lowest(CellsOf(header', role)),
                            !.column_name =
                                header'[Lowest(CellsOf(header', role)) + 1]]
                  ELSE column_map[role]]_vars

\* the header names doi twice and euro once; doi has the index and text of
\* the first of its cells, euro the index from the command line
C16_Witness ==
    /\ pc = "heuristics"
    /\ SubSeq(header, 1, 3) = <<"DOI", "doi", "euro">>
    /\ column_map["doi"].index = 0
    /\ column_map["doi"].column_name = "DOI"
    /\ args.index["euro"] = 1
    /\ column_map["euro"].index = 1
    /\ column_map["euro"].column_name = ""

\* the header analysis run on a map: skipped without header or when the
\* header is to be ignored
HeaderPass(map) ==
    IF HeaderPosition(file, has_header) = 0 \/ args.ignore_header
    THEN map
    ELSE MatchHeader(map, file[HeaderPosition(file, has_header)], 0)

\* the heuristical analysis run on a map: skipped without a sample row
SamplePass(map) ==
    IF SamplePosition(file, has_header) = 0
    THEN map
    ELSE Sniff(map, header, file[SamplePosition(file, has_header)])

\* the heuristical analysis run on a map would raise
SamplePassRaises(map) ==
    /\ SamplePosition(file, has_header) # 0
    /\ SniffRaises(map, header, file[SamplePosition(file, has_header)])

\* C17: the analysis is idempotent: the header analysis and the
\* heuristical analysis run a second time on the same header and the same
\* sample row, from the column_map the first run produced, leave the index
\* and the column name of every column unchanged.
C17_AnalysisIdempotent ==
    pc \in {"wrapup", "summary", "confirm"} =>
        /\ ~SamplePassRaises(HeaderPass(column_map))
        /\ \A k \in DOMAIN column_map :
               LET again == SamplePass(HeaderPass(column_map))[k] IN
               /\ again.index = column_map[k].index
               /\ again.column_name = column_map[k].column_name

\* the first run took doi from the header and period from the one cell
\* that looks like a year, and left euro unassigned
C17_Witness ==
    /\ pc = "wrapup"
    /\ column_map["doi"].column_name = "doi"
    /\ Len(column_candidates["period"]) = 1
    /\ column_map["period"].index = column_candidates["period"][1]
    /\ Len(column_candidates["euro"]) # 1
    /\ column_map["euro"].index = NoIndex

\* the shape of a cell: the tests are made in the order DOI, year,
\* monetary amount, and the first that succeeds names the shape (a year
\* such as "2021" is a number between 10 and 6000 as well)
Shape(entry) ==
    LET e == Strip(entry) IN
    IF DOI_RE_match(e) THEN "doi"
    ELSE IF IntParses(e) /\ IntOf(e) >= 2000 /\ IntOf(e) <= now + 2
         THEN "period"
    ELSE IF AtofParses(e) /\ FloatBetween(atof(e), 10, 6000) THEN "euro"
    ELSE "None"

\* the indices of the cells of a shape in the columns no role holds
ShapedCells(row, shape) ==
    {index \in 0..(Len(row) - 1) :
        /\ index \notin AssignedIndices(column_map)
        /\ Shape(row[index + 1]) = shape}

\* the sample row
Sample == file[SamplePosition(file, has_header)]

\* this step is a heuristical analysis that looks at a row and completes
SniffsRow ==
    /\ pc = "heuristics" /\ pc' = "wrapup"
    /\ SamplePosition(file, has_header) # 0

\* C18: when doi, period and euro are all unassigned and the sample row
\* holds exactly one cell that looks like a DOI, exactly one that looks
\* like a year and exactly one that looks like a monetary amount, in three
\* columns no role holds, the heuristical analysis assigns doi, period
\* and euro to exactly those columns and assigns no other role.
C18_OneOfEachShapeAssigned ==
    [][/\ SniffsRow
       /\ \A role \in SniffedRoles :
              /\ column_map[role].index = NoIndex
              /\ Cardinality(ShapedCells(Sample, role)) = 1
       => /\ \A role \in SniffedRoles :
                 column_map'[role].index \in ShapedCells(Sample, role)
          /\ \A k \in DOMAIN column_map \ SniffedRoles :
                 column_map'[k] = column_map[k]
          /\ DOMAIN column_map' = DOMAIN column_map]_vars

\* a row with one DOI, one year and one amount has been analysed: each of
\* the three roles has the column of its cell, year and amount not in the
\* order of the tests
C18_Witness ==
    /\ pc = "wrapup"
    /\ args.index = NoForcedIndex
    /\ \A role \in SniffedRoles : Len(column_candidates[role]) = 1
    /\ Sample[column_map["doi"].index + 1] = Doi
    /\ Sample[column_map["period"].index + 1] = Year
    /\ Sample[column_map["euro"].index + 1] = Amount
    /\ column_map["euro"].index < column_map["period"].index
    /\ column_map["institution"].index = NoIndex

\* C22: in the heuristical analysis a role among doi, period and euro
\* that is still unassigned is assigned if and only if exactly one column
\* of the sample row became its candidate, and then to that column; with
\* no candidate or more than one it stays unassigned; a column that a
\* role already holds is never a candidate.
C22_AssignedIffOneCandidate ==
    [][SniffsRow =>
          \A role \in SniffedRoles :
              /\ \A i \in 1..Len(column_candidates'[role]) :
                     /\ column_candidates'[role][i] \in 0..(Len(Sample) - 1)
                     /\ column_candidates'[role][i]
                            \notin AssignedIndices(column_map)
              /\ column_map[role].index = NoIndex =>
                     /\ column_map'[role].index # NoIndex
                            <=> Len(column_candidates'[role]) = 1
                     /\ Len(column_candidates'[role]) = 1 =>
                            column_map'[role].index =
                                column_candidates'[role][1]]_vars

\* a row with two years and one amount has been analysed: euro has the
\* column of the amount, period with its two candidates and doi with none
\* are left unassigned
C22_Witness ==
    /\ pc = "wrapup"
    /\ Len(column_candidates["doi"]) = 0
    /\ column_map["doi"].index = NoIndex
    /\ Len(column_candidates["period"]) = 2
    /\ column_map["period"].index = NoIndex
    /\ Len(column_candidates["euro"]) = 1
    /\ column_map["euro"].index = column_candidates["euro"][1]
    /\ Sample[column_map["euro"].index + 1] = Amount

-----------------------------------------------------------------------------
(* Properties of the merge of the metadata fields *)

\* this step merges a field that the record of Crossref or Pubmed reports
\* as absent
MergesAbsent ==
    /\ pc \in {"crossref_merge", "pubmed_merge"}
    /\ pending # <<>>
    /\ pending' = Tail(pending)
    /\ data[Head(pending)] = None

\* the key of the field a merge step merges
MergedKey == Head(pending)

\* the column of the merged field holds the pair of the old value and NA in
\* its blacklist
AbsentRejected ==
    /\ current_row[MergedKey]
           \in DOMAIN column_map[MergedKey].overwrite_blacklist
    /\ column_map[MergedKey].overwrite_blacklist[current_row[MergedKey]] = NA

\* the old value of the merged field is a key of the whitelist of its
\* column
OldApproved ==
    current_row[MergedKey]
        \in DOMAIN column_map[MergedKey].overwrite_whitelist

\* C25 as stated: a field reported as absent by a successful lookup is
\* merged as NA: a value of the row other than NA is replaced by NA when
\* the policy of the column is ALWAYS or the old value is in the whitelist,
\* and is kept when the policy is NEVER or the pair is in the blacklist.
C25_Original ==
    [][MergesAbsent /\ current_row[MergedKey] # NA =>
          /\ (\/ column_map[MergedKey].overwrite = OW_ALWAYS
              \/ OldApproved)
                 => current_row'[MergedKey] = NA
          /\ (\/ column_map[MergedKey].overwrite = OW_NEVER
              \/ AbsentRejected)
                 => current_row'[MergedKey] = current_row[MergedKey]]_vars

\* C25, amended: a field reported as absent by a successful lookup of
\* Crossref or Pubmed is merged through check_overwrite with the new value
\* NA.  A value of the row other than NA is replaced by NA when it is
\* blank, whatever the policy; otherwise when the policy is ALWAYS;
\* otherwise, under ASK, when the old value is in the whitelist and the
\* pair is not in the blacklist.  It is kept when it is not blank and the
\* policy is NEVER, or under ASK when the pair is in the blacklist.  In
\* the remaining case the user is asked and the answer decides.
C25_AbsentFieldMergedAsNA ==
    [][MergesAbsent =>
          LET old == current_row[MergedKey]
              csvc == column_map[MergedKey]
              asks == /\ old # NA /\ ~Blank(old)
                      /\ csvc.overwrite = OW_ASK
                      /\ ~AbsentRejected /\ ~OldApproved
          IN /\ call'.made
             /\ call'.old_value = old
             /\ call'.new_value = NA
             /\ current_row'[MergedKey] = call'.value
             /\ call'.prompted <=> asks
             /\ old # NA =>
                    call'.value =
                        IF Blank(old) THEN NA
                        ELSE IF csvc.overwrite = OW_ALWAYS THEN NA
                        ELSE IF csvc.overwrite = OW_NEVER THEN old
                        ELSE IF AbsentRejected THEN old
                        ELSE IF OldApproved THEN NA
                        ELSE IF call'.ret \in {"1", "2", "3"} THEN NA
                        ELSE old]_vars

\* in the second data row the ISSN of the file was replaced by NA without
\* a question, for an ISSN field that Crossref reported as absent, because
\* the ISSN had been approved for overwriting in the first row
C25_Witness ==
    /\ pc = "crossref_merge"
    /\ row_num = 3
    /\ data["issn"] = None
    /\ call.made /\ ~call.prompted
    /\ call.old_value = Issn
    /\ call.new_value = NA
    /\ current_row["issn"] = NA
    /\ column_map["issn"].overwrite = OW_ASK
    /\ Issn \in DOMAIN column_map["issn"].overwrite_whitelist

=============================================================================
